---- MODULE Spec2Model ----
(***************************************************************************)
(* Model of imperative_timing/timer.py: the countdown _Timer, the polling  *)
(* loop of NormalWebDriverWait (until / until_not / until_any), spawn and  *)
(* attempts, and the AttemptSeries / Attempt scoped-outcome machinery.     *)
(* Time is the monotonic clock in integer ticks.                           *)
(***************************************************************************)
EXTENDS Integers, Sequences, FiniteSets, TLC

\* ------------------------------------------------------------------ bounds
MaxBudget == 2      \* largest timeout given to a constructor or to spawn
MaxPoll == 1        \* largest min_poll_duration
MaxLat == 1         \* largest latency of one probe call or one body step
MaxProbes == 2      \* probes handed to until_any


\* ------------------------------------------------------------- value space
\* Python values a probe returns; "True" is the constant True.
Value == {"None", "Zero", "Elem"}
Truthy(v) == v \in {"Elem", "True"}

\* Exception kinds a probe or a body raises.
NoSuchElementException == "NoSuchElementException"
TimeoutException == "TimeoutException"
Kind == {NoSuchElementException, "ValueError"}

\* What one call of a probe does: return v, or raise kind v.
Outcome == [raises : {FALSE}, v : Value] \cup [raises : {TRUE}, v : Kind]

\* An optional (keyword) argument: << >> is None, <<x>> is x.
Opt(S) == {<< >>} \cup {<<x>> : x \in S}

\* Mutant: no clamp, the first argument is returned as it is.
Max_NoClamp(a, b) == a

Max(a, b) == IF a >= b THEN a ELSE b
Min(a, b) == IF a <= b THEN a ELSE b

\* The longest one pass of a polling loop takes, and the clock's cut-off: late
\* enough for every running countdown to run out in a pass begun before it.
MaxPass == Max(MaxProbes * MaxLat, MaxPoll)
MaxTime == MaxBudget + MaxPass

\* ------------------------------------------------------------------ _Timer
\* start(): running, epoch = monotonic()
Timer_start(tm, t) == [tm EXCEPT !.running = TRUE, !.last_start = t]

\* __init__(timeout, autostart)
Timer_init(timeout, autostart, t) ==
    LET tm == [last_start |-> 0, last_timeout |-> timeout, running |-> FALSE]
    IN  IF autostart THEN Timer_start(tm, t) ELSE tm

\* Mutant: the countdown goes on whether the timer is running or not.
Timer_timeout_AlwaysCounts(tm, t) == Max(tm.last_timeout - t + tm.last_start, 0)

\* Mutant: the elapsed time is added instead of subtracted.
Timer_timeout_SignSlip(tm, t) ==
    IF ~tm.running THEN tm.last_timeout
    ELSE Max(tm.last_timeout + t - tm.last_start, 0)

\* timeout(): the remaining time
Timer_timeout(tm, t) ==
    IF ~tm.running THEN tm.last_timeout
    ELSE Max(tm.last_timeout - t + tm.last_start, 0)

\* Mutant: stop() marks the timer not running and leaves the budget as it was.
Timer_stop_KeepBudget(tm, t) == [tm EXCEPT !.running = FALSE]

\* stop(): freeze the remaining time
Timer_stop(tm, t) ==
    [tm EXCEPT !.running = FALSE, !.last_timeout = Timer_timeout(tm, t)]

\* ----------------------------------------------------- NormalWebDriverWait
\* __init__: the ignored set always holds NoSuchElementException
Wait_init(timeout, min_poll_duration, ignore_exceptions, eventually_expires, t) ==
    [timer |-> Timer_init(timeout, eventually_expires, t),
     min_poll_duration |-> min_poll_duration,
     ignored_exceptions |-> {NoSuchElementException} \cup ignore_exceptions]

\* the timeout property
Wait_timeout(w, t) == Timer_timeout(w.timer, t)

\* Mutant: max_timeout is taken as given, without the cap.
Wait_spawn_NoCap(w, max_timeout, min_poll_duration, ignored_exceptions, t) ==
    LET timeout == IF max_timeout = << >> THEN Timer_timeout(w.timer, t)
                   ELSE max_timeout[1]
        mpd == IF min_poll_duration = << >> THEN w.min_poll_duration
               ELSE min_poll_duration[1]
        ign == IF ignored_exceptions = << >> THEN w.ignored_exceptions
               ELSE ignored_exceptions[1]
    IN  Wait_init(timeout, mpd, ign, w.timer.running, t)

\* spawn(max_timeout, min_poll_duration, ignored_exceptions)
Wait_spawn(w, max_timeout, min_poll_duration, ignored_exceptions, t) ==
    LET timeout == IF max_timeout = << >> THEN Timer_timeout(w.timer, t)
                   ELSE Min(max_timeout[1], Timer_timeout(w.timer, t))
        mpd == IF min_poll_duration = << >> THEN w.min_poll_duration
               ELSE min_poll_duration[1]
        ign == IF ignored_exceptions = << >> THEN w.ignored_exceptions
               ELSE ignored_exceptions[1]
    IN  Wait_init(timeout, mpd, ign, w.timer.running, t)

\* Mutant: until_not tests with bool as until does.
Predicate_AlwaysBool(kind, v) == Truthy(v)

\* until uses bool, until_not uses "not x"; until_any is until
Predicate(kind, v) ==
    IF kind = "until_not" THEN ~Truthy(v) ELSE Truthy(v)

\* Mutant: no suppress around a probe, an ignored kind leaves the scan too.
check_any_NoSuppress(w, out, idx, n) ==
    IF out.raises THEN [done |-> TRUE, raises |-> TRUE, v |-> out.v]
    ELSE IF Truthy(out.v) THEN [done |-> TRUE, raises |-> FALSE, v |-> out.v]
    ELSE IF idx < n THEN [done |-> FALSE, raises |-> FALSE, v |-> "None"]
    ELSE [done |-> TRUE, raises |-> FALSE, v |-> "None"]

\* _checker_any._check_any, one turn of its for-loop: probe idx of n did out.
\* A truthy value is returned; a raised ignored kind is suppressed and, like a
\* falsy value, leads to the next probe, or to "return None" after the last
\* one; any other kind leaves _check_any.
check_any(w, out, idx, n) ==
    IF out.raises /\ out.v \notin w.ignored_exceptions
        THEN [done |-> TRUE, raises |-> TRUE, v |-> out.v]
    ELSE IF ~out.raises /\ Truthy(out.v)
        THEN [done |-> TRUE, raises |-> FALSE, v |-> out.v]
    ELSE IF idx < n THEN [done |-> FALSE, raises |-> FALSE, v |-> "None"]
    ELSE [done |-> TRUE, raises |-> FALSE, v |-> "None"]

\* method(self._driver) of one round: the probe itself, or the composite probe
Method(w, kind, out, idx, n) ==
    IF kind = "until_any" THEN check_any(w, out, idx, n)
    ELSE [done |-> TRUE, raises |-> out.raises, v |-> out.v]

\* Mutant: the sleep is min_poll_duration whatever the pass took so far.
PollSleep_Full(w, t0, t1) == w.min_poll_duration

\* sleep(poll_timer.timeout()): poll_timer started at t0, read at t1
PollSleep(w, t0, t1) == Timer_timeout(Timer_init(w.min_poll_duration, TRUE, t0), t1)

\* Mutant: the test is "< 0", which the clamped remaining time never passes.
DeadlineExhausted_Negative(w, t) == Timer_timeout(w.timer, t) < 0

\* "if self._timer.timeout() == 0: break"
DeadlineExhausted(w, t) == Timer_timeout(w.timer, t) = 0

\* Mutant: an ignored exception never returns, in until_not either.
UntilRound_NoShim(w, kind, m, t0, t1) ==
    LET t2 == t1 + PollSleep(w, t0, t1)
        base == [pc |-> "running", result |-> "None", t |-> t1, screen |-> "None"]
    IN  IF ~m.raises /\ Predicate(kind, m.v)
            THEN [base EXCEPT !.pc = "returned", !.result = m.v]
        ELSE IF m.raises /\ m.v \notin w.ignored_exceptions
            THEN [base EXCEPT !.pc = "raised", !.result = m.v]
        ELSE [base EXCEPT !.pc = IF DeadlineExhausted(w, t2) THEN "timeout"
                                 ELSE "running",
                          !.t = t2,
                          !.screen = IF m.raises THEN m.v ELSE "None"]

\* Mutant: the except clause takes every kind of exception.
UntilRound_CatchAll(w, kind, m, t0, t1) ==
    LET t2 == t1 + PollSleep(w, t0, t1)
        base == [pc |-> "running", result |-> "None", t |-> t1, screen |-> "None"]
    IN  IF ~m.raises /\ Predicate(kind, m.v)
            THEN [base EXCEPT !.pc = "returned", !.result = m.v]
        ELSE IF m.raises /\ Predicate(kind, "None")
            THEN [base EXCEPT !.pc = "returned", !.result = "True"]
        ELSE [base EXCEPT !.pc = IF DeadlineExhausted(w, t2) THEN "timeout"
                                 ELSE "running",
                          !.t = t2,
                          !.screen = IF m.raises THEN m.v ELSE "None"]

\* One pass of the while-loop of _until_predicate from the point where
\* method, called at t0 (when poll_timer was started), has returned or raised
\* m at t1: where the run stands after the pass and when.
UntilRound(w, kind, m, t0, t1) ==
    LET t2 == t1 + PollSleep(w, t0, t1)
        base == [pc |-> "running", result |-> "None", t |-> t1, screen |-> "None"]
    IN  IF ~m.raises /\ Predicate(kind, m.v)
            THEN [base EXCEPT !.pc = "returned", !.result = m.v]
        ELSE IF m.raises /\ m.v \notin w.ignored_exceptions
            THEN [base EXCEPT !.pc = "raised", !.result = m.v]
        ELSE IF m.raises /\ Predicate(kind, "None")
            THEN [base EXCEPT !.pc = "returned", !.result = "True"]
        ELSE [base EXCEPT !.pc = IF DeadlineExhausted(w, t2) THEN "timeout"
                                 ELSE "running",
                          !.t = t2,
                          !.screen = IF m.raises THEN m.v ELSE "None"]

\* ------------------------------------------------- AttemptSeries / Attempt
\* An attribute not set yet
NoTimer == [last_start |-> 0, last_timeout |-> 0, running |-> FALSE]

\* AttemptSeries.__init__; the attribute timer_poll is there only once
\* __next__ has set it
AttemptSeries_init(timeout, min_poll_duration, t) ==
    [timer_total |-> Timer_init(timeout, TRUE, t),
     min_poll_duration |-> min_poll_duration,
     _timer_poll |-> Timer_init(0, TRUE, t),
     timer_poll |-> NoTimer,
     stop_iteration |-> FALSE,
     result |-> "None"]

\* Mutant: the series gets the budget the wait was made with, not what the
\* timeout property reads.
Wait_attempts_Stored(w, t) == AttemptSeries_init(w.timer.last_timeout, w.min_poll_duration, t)

\* attempts(): a new AttemptSeries from the timeout and min_poll_duration
\* properties as they read at t
Wait_attempts(w, t) == AttemptSeries_init(Wait_timeout(w, t), w.min_poll_duration, t)

\* Mutant: the budget is read as given, the countdown is not.
Series_timeout_Frozen(s, t) == s.timer_total.last_timeout

\* AttemptSeries.timeout property
Series_timeout(s, t) == Timer_timeout(s.timer_total, t)

\* AttemptSeries.success
Series_success(s, result) == [s EXCEPT !.stop_iteration = TRUE, !.result = result]

\* AttemptSeries.__iter__
Series_iter(s) == [s EXCEPT !.stop_iteration = FALSE]

\* Mutant: Timeout only below 0, which the clamped remaining time never is.
Series_next_StrictTimeout(s, t) ==
    IF s.stop_iteration THEN [kind |-> "StopIteration", t |-> t]
    ELSE LET t1 == t + Timer_timeout(s._timer_poll, t)
         IN  IF Series_timeout(s, t1) < 0 THEN [kind |-> "Timeout", t |-> t1]
             ELSE [kind |-> "Attempt", t |-> t1]

\* Mutant: the budget is looked at before the stop flag.
Series_next_TimeoutFirst(s, t) ==
    LET t1 == t + Timer_timeout(s._timer_poll, t)
    IN  IF Series_timeout(s, t1) <= 0 THEN [kind |-> "Timeout", t |-> t1]
        ELSE IF s.stop_iteration THEN [kind |-> "StopIteration", t |-> t]
        ELSE [kind |-> "Attempt", t |-> t1]

\* AttemptSeries.__next__ called at t: StopIteration, or sleep out
\* self._timer_poll, then TimeoutException or a new Attempt; with the time
\* of the outcome.  The timer the method starts goes to self.timer_poll (see
\* Series_next_poll), an attribute that nothing reads: the sleep reads
\* self._timer_poll, which __init__ set with timeout 0.
Series_next(s, t) ==
    IF s.stop_iteration THEN [kind |-> "StopIteration", t |-> t]
    ELSE LET t1 == t + Timer_timeout(s._timer_poll, t)
         IN  IF Series_timeout(s, t1) <= 0 THEN [kind |-> "Timeout", t |-> t1]
             ELSE [kind |-> "Attempt", t |-> t1]

\* AttemptSeries.__next__ called at t on a series not stopped, what it does
\* to the series: "self.timer_poll = _Timer(self._min_poll_duration,
\* autostart=True)" once the sleep is over.  The sleep is on
\* self._timer_poll, another attribute, which stays as __init__ made it.
Series_next_poll(s, t) ==
    [s EXCEPT !.timer_poll =
        Timer_init(s.min_poll_duration, TRUE, t + Timer_timeout(s._timer_poll, t))]

\* Attempt.__init__
Attempt_init == [ignored_exceptions |-> {}, result |-> "None"]

\* Attempt.suppress
Attempt_suppress(a, exceptions) == [a EXCEPT !.ignored_exceptions = exceptions]

\* Attempt.__enter__
Attempt_enter(a) == [a EXCEPT !.result = "None"]

\* Mutant: a suppressed exception is swallowed without a look at the budget.
Attempt_exit_NoDeadline(a, s, self, e, t) ==
    IF e.kind = "Success"
        THEN IF e.owner # self THEN [a |-> a, s |-> s, out |-> "propagate"]
             ELSE [a |-> [a EXCEPT !.result = e.result],
                   s |-> Series_success(s, e.result), out |-> "swallow"]
    ELSE IF e.kind \in a.ignored_exceptions
        THEN [a |-> a, s |-> s, out |-> "swallow"]
    ELSE [a |-> a, s |-> s, out |-> "propagate"]

\* Mutant: a Success is absorbed whoever its owner is.
Attempt_exit_AnyOwner(a, s, self, e, t) ==
    IF e.kind = "Success"
        THEN [a |-> [a EXCEPT !.result = e.result], s |-> Series_success(s, e.result),
              out |-> "swallow"]
    ELSE IF e.kind \in a.ignored_exceptions
        THEN [a |-> a, s |-> s,
              out |-> IF Series_timeout(s, t) <= 0 THEN "Timeout" ELSE "swallow"]
    ELSE [a |-> a, s |-> s, out |-> "propagate"]

\* Attempt.__exit__ of the Attempt a (identity self) of series s, called at t
\* with the exception e in flight (kind "none": the body ended normally):
\* the Attempt and the series after it, and whether the exception is
\* swallowed (return True), left to propagate (return False / None) or
\* replaced by TimeoutException.
Attempt_exit(a, s, self, e, t) ==
    IF e.kind = "Success"
        THEN IF e.owner # self THEN [a |-> a, s |-> s, out |-> "propagate"]
             ELSE [a |-> [a EXCEPT !.result = e.result],
                   s |-> Series_success(s, e.result), out |-> "swallow"]
    ELSE IF e.kind \in a.ignored_exceptions
        THEN [a |-> a, s |-> s,
              out |-> IF Series_timeout(s, t) <= 0 THEN "Timeout" ELSE "swallow"]
    ELSE [a |-> a, s |-> s, out |-> "propagate"]

\* ------------------------------------------------------------------- state
VARIABLES
    now,        \* monotonic()
    waits,      \* the NormalWebDriverWait instances, in creation order
    run,        \* the call of until / until_not / until_any in progress or last ended
    series,     \* the AttemptSeries iterated at each nesting level
    made,       \* how the series at each level was made
    att,        \* the Attempt last yielded at each nesting level
    lvl,        \* the nesting level control is at (0: outside every loop)
    pc,         \* where control is in the loop at lvl
    exc         \* the exception in flight, if any

vars == <<now, waits, run, series, made, att, lvl, pc, exc>>
attemptVars == <<series, made, att, lvl, pc, exc>>

\* The locals of a call: n probes were given, probe idx is the next to be
\* called in the pass, poll_timer was started at poll_start (kept while a pass
\* is under way), first: no pass has been made yet, screen: the payload of
\* the last ignored exception; called: when the call was made (kept while the
\* call is under way).
NoRun == [pc |-> "idle", w |-> 0, kind |-> "until", n |-> 1, idx |-> 1,
          poll_start |-> 0, result |-> "None", first |-> TRUE, screen |-> "None",
          called |-> 0]
NoSeries == [timer_total |-> NoTimer, min_poll_duration |-> 0,
             _timer_poll |-> NoTimer, timer_poll |-> NoTimer,
             stop_iteration |-> FALSE, result |-> "None"]
NoMade == [by |-> "none", w |-> 0]
NoAttempt == [ignored_exceptions |-> {}, result |-> "None"]
NoExc == [kind |-> "none", owner |-> 0, result |-> "None"]

\* The nesting levels: one loop, or two or three nested ones
Levels == 1..3

\* The caller's ignore_exceptions argument
IgnoreArg == SUBSET {"ValueError"}

\* A wait is constructed at time 0; nothing else exists yet.
Init ==
    /\ now = 0
    /\ \E timeout \in 0..MaxBudget, mpd \in 0..MaxPoll, ign \in IgnoreArg,
          eventually_expires \in BOOLEAN :
          waits = <<Wait_init(timeout, mpd, ign, eventually_expires, 0)>>
    /\ run = NoRun
    /\ series = [l \in Levels |-> NoSeries]
    /\ made = [l \in Levels |-> NoMade]
    /\ att = [l \in Levels |-> NoAttempt]
    /\ lvl = 0
    /\ pc = "idle"
    /\ exc = NoExc

\* --------------------------------------------------------- polling actions
\* until(method) / until_not(method) / until_any(methods), n methods, is
\* called on waits[i]
Call(i, kind, n) ==
    /\ pc \in {"idle", "done", "escaped"} /\ run.pc # "running"
    /\ i \in 1..Len(waits)
    /\ now + MaxPass <= MaxTime
    /\ run' = [NoRun EXCEPT !.pc = "running", !.w = i, !.kind = kind, !.n = n,
                            !.called = now]
    /\ UNCHANGED <<now, waits, attemptVars>>

\* The next probe of the pass is called, takes d and does out; when method
\* is through with that, the rest of the pass of _until_predicate follows.
Probe(out, d) ==
    /\ run.pc = "running"
    /\ LET w == waits[run.w]
           t0 == IF run.idx = 1 THEN now ELSE run.poll_start
           m == Method(w, run.kind, out, run.idx, run.n)
           r == UntilRound(w, run.kind, m, t0, now + d)
       IN  IF ~m.done
           THEN /\ now + d <= MaxTime
                /\ now' = now + d
                /\ run' = [run EXCEPT !.idx = run.idx + 1, !.poll_start = t0]
           ELSE /\ r.t <= MaxTime
                /\ now' = r.t
                /\ run' = [run EXCEPT
                      !.pc = r.pc, !.result = r.result, !.first = FALSE,
                      !.idx = IF r.pc = "running" THEN 1 ELSE run.idx,
                      !.poll_start = 0,
                      !.called = IF r.pc = "running" THEN run.called ELSE 0,
                      !.screen = IF r.screen # "None" THEN r.screen ELSE run.screen]
    /\ UNCHANGED <<waits, attemptVars>>

ProbeOf(kind) ==
    \E out \in Outcome, d \in 0..MaxLat :
        /\ run.kind = kind
        /\ Probe(out, d)

\* The caller does something else for d between two calls.
Elapse(d) ==
    /\ pc = "idle" /\ run.pc # "running"
    /\ now + d <= MaxTime
    /\ now' = now + d
    /\ UNCHANGED <<waits, run, attemptVars>>

\* waits[i].spawn(...)
Spawn(i, max_timeout, min_poll_duration, ignored_exceptions) ==
    /\ run.pc # "running"
    /\ pc \in {"idle", "done", "escaped", "body"}
    /\ i \in 1..Len(waits)
    /\ Len(waits) < 2
    /\ waits' = Append(waits, Wait_spawn(waits[i], max_timeout, min_poll_duration,
                                         ignored_exceptions, now))
    /\ UNCHANGED <<now, run, attemptVars>>

CallAny ==
    \E i \in 1..2 :
        \/ \E kind \in {"until", "until_not"} : Call(i, kind, 1)
        \/ \E n \in 1..MaxProbes : Call(i, "until_any", n)
ProbeUntil == ProbeOf("until")
ProbeUntilNot == ProbeOf("until_not")
ProbeUntilAny == ProbeOf("until_any")
ElapseAny == \E d \in 1..MaxLat : Elapse(d)

SpawnAny ==
    \E i \in 1..2, max_timeout \in Opt(0..MaxBudget),
       mpd \in Opt(0..MaxPoll), ign \in Opt(IgnoreArg) :
        Spawn(i, max_timeout, mpd, ign)


\* The polling side: calls on one wait, one after the other.
Next ==
    \/ CallAny
    \/ ProbeUntil
    \/ ProbeUntilNot
    \/ ProbeUntilAny
    \/ ElapseAny

Spec == Init /\ [][Next]_vars


\* --------------------------------------------------------- attempt actions
\* Control is outside every loop
Outside == {"idle", "done", "escaped"}

\* The value handed to a success capability
SuccessArg == {"Elem"}

\* What "with attempt" and "with attempt.suppress(...)" are given
SuppressArg == Opt({{NoSuchElementException}})

\* The clock's cut-off on the attempt side: a loop is started only if its
\* budget runs out by then
MaxClock == MaxBudget + 1

\* The loop one level further in may be started here
MayLoop == run.pc # "running" /\ pc \in Outside \cup {"body"} /\ lvl + 1 \in Levels

\* waits[i].attempts(): the series is made and kept for later
Attempts(i) ==
    /\ MayLoop
    /\ i \in 1..Len(waits)
    /\ now + Wait_timeout(waits[i], now) <= MaxTime
    /\ series' = [series EXCEPT ![lvl + 1] = Wait_attempts(waits[i], now)]
    /\ made' = [made EXCEPT ![lvl + 1] = [by |-> "attempts", w |-> i]]
    /\ UNCHANGED <<now, waits, run, att, lvl, pc, exc>>

\* "for attempt in s": __iter__ of the series s, which was made as m says,
\* starts the loop one level further in; what is left of loops further in
\* than that is let go of.
For(s, m) ==
    /\ MayLoop
    /\ series' = [l \in Levels |-> IF l <= lvl THEN series[l]
                                  ELSE IF l = lvl + 1 THEN Series_iter(s)
                                  ELSE NoSeries]
    /\ made' = [l \in Levels |-> IF l <= lvl THEN made[l]
                                ELSE IF l = lvl + 1 THEN m
                                ELSE NoMade]
    /\ att' = [l \in Levels |-> IF l <= lvl THEN att[l] ELSE NoAttempt]
    /\ lvl' = lvl + 1
    /\ pc' = "next"
    /\ exc' = NoExc
    /\ UNCHANGED <<now, waits, run>>

\* for attempt in waits[i].attempts()
ForAttempts(i) ==
    /\ i \in 1..Len(waits)
    /\ now + Wait_timeout(waits[i], now) <= MaxClock
    /\ For(Wait_attempts(waits[i], now), [by |-> "attempts", w |-> i])

\* for attempt in AttemptSeries(timeout)
ForSeries(timeout) ==
    /\ now + timeout <= MaxClock
    /\ For(AttemptSeries_init(timeout, 0, now), [by |-> "AttemptSeries", w |-> 0])

\* The series of the loop that ended one level further in is iterated again.
Iter ==
    /\ lvl + 1 \in Levels
    /\ made[lvl + 1].by # "none"
    /\ For(series[lvl + 1], made[lvl + 1])

\* The objects of loops further in than level k are let go of: f without them
Upto(f, k, none) == [l \in Levels |-> IF l <= k THEN f[l] ELSE none]

\* Where an exception that leaves the loop at level l lands: in the body of
\* the Attempt around that loop, or with the caller of the outermost loop
Leave(l) == IF l > 1 THEN "exit" ELSE "escaped"

\* The for statement calls __next__ of the series at lvl.  A new pass of the
\* body makes its inner loops afresh: the objects of the pass before are
\* let go of.
SeriesNext ==
    /\ pc = "next"
    /\ LET r == Series_next(series[lvl], now)
           s1 == IF r.kind = "StopIteration" THEN series[lvl]
                 ELSE Series_next_poll(series[lvl], now)
       IN  /\ r.t <= MaxClock
           /\ now' = r.t
           /\ IF r.kind = "Attempt"
              THEN /\ att' = [l \in Levels |-> IF l < lvl THEN att[l]
                                               ELSE IF l = lvl THEN Attempt_init
                                               ELSE NoAttempt]
                   /\ series' = [Upto(series, lvl, NoSeries) EXCEPT ![lvl] = s1]
                   /\ made' = [l \in Levels |-> IF l <= lvl THEN made[l] ELSE NoMade]
                   /\ pc' = "yielded"
                   /\ UNCHANGED <<lvl, exc>>
              ELSE /\ series' = [Upto(series, lvl, NoSeries) EXCEPT ![lvl] = s1]
                   /\ made' = Upto(made, lvl, NoMade)
                   /\ att' = Upto(att, lvl, NoAttempt)
                   /\ lvl' = lvl - 1
                   /\ IF r.kind = "StopIteration"
                      THEN /\ pc' = IF lvl > 1 THEN "body" ELSE "done"
                           /\ UNCHANGED exc
                      ELSE /\ pc' = Leave(lvl)
                           /\ exc' = [kind |-> TimeoutException, owner |-> 0,
                                      result |-> "None"]
    /\ UNCHANGED <<waits, run>>

\* "with attempt as success" / "with attempt.suppress(...) as success":
\* suppress if given, then __enter__
Enter(sup) ==
    /\ pc = "yielded"
    /\ att' = [att EXCEPT ![lvl] =
                  Attempt_enter(IF sup = << >> THEN att[lvl]
                                ELSE Attempt_suppress(att[lvl], sup[1]))]
    /\ pc' = "body"
    /\ UNCHANGED <<now, waits, run, series, made, lvl, exc>>

\* The clock goes on while a body runs and between two passes of a loop.
Tick ==
    /\ pc \in {"body", "next"}
    /\ now < MaxClock
    /\ now' = now + 1
    /\ UNCHANGED <<waits, run, attemptVars>>

\* The body raises an exception of kind k.
BodyRaise(k) ==
    /\ pc = "body"
    /\ exc' = [kind |-> k, owner |-> 0, result |-> "None"]
    /\ pc' = "exit"
    /\ UNCHANGED <<now, waits, run, series, made, att, lvl>>

\* The body calls the success capability got from entering the Attempt open
\* at level k (k = 0: one kept from an Attempt that is closed by now):
\* _raise_success raises Success(owner, result).
BodySuccess(k, v) ==
    /\ pc = "body"
    /\ k \in 0..lvl
    /\ exc' = [kind |-> "Success", owner |-> k, result |-> v]
    /\ pc' = "exit"
    /\ UNCHANGED <<now, waits, run, series, made, att, lvl>>

\* The with statement calls __exit__ of the Attempt at lvl: with the
\* exception in flight, or with none when the body has come to its end.  The
\* objects of the loops the body ran are let go of, except that those of the
\* loop the Success came out of stay in view when the series is stopped.
ScopeExit ==
    /\ pc \in {"body", "exit"}
    /\ pc = "body" => exc = NoExc
    /\ LET r == Attempt_exit(att[lvl], series[lvl], lvl, exc, now)
           keep == IF r.s.stop_iteration THEN lvl + 1 ELSE lvl
       IN  /\ att' = [Upto(att, keep, NoAttempt) EXCEPT ![lvl] = r.a]
           /\ series' = [Upto(series, keep, NoSeries) EXCEPT ![lvl] = r.s]
           /\ made' = Upto(made, keep, NoMade)
           /\ IF r.out = "swallow" \/ exc.kind = "none"
              THEN /\ pc' = "next"
                   /\ exc' = NoExc
                   /\ UNCHANGED lvl
              ELSE /\ pc' = Leave(lvl)
                   /\ lvl' = lvl - 1
                   /\ exc' = IF r.out = "Timeout"
                             THEN [kind |-> TimeoutException, owner |-> 0,
                                   result |-> "None"]
                             ELSE exc
    /\ UNCHANGED <<now, waits, run>>

AttemptsAny == \E i \in 1..2 : Attempts(i)
ForAttemptsAny == \E i \in 1..2 : ForAttempts(i)
ForSeriesAny == \E timeout \in 0..MaxBudget : ForSeries(timeout)
EnterAny == \E sup \in SuppressArg : Enter(sup)
BodyRaiseAny == \E k \in Kind : BodyRaise(k)
BodySuccessAny == \E k \in 0..3, v \in SuccessArg : BodySuccess(k, v)

\* The attempt side: loops over AttemptSeries, one after the other, on one
\* wait with the largest budget.
InitAttempts ==
    /\ Init
    /\ waits[1].timer.last_timeout = MaxBudget
    /\ waits[1].min_poll_duration \in {0, MaxPoll}
    /\ waits[1].ignored_exceptions = {NoSuchElementException}

NextAttempts ==
    \/ ForAttemptsAny /\ lvl = 0
    \/ ForSeriesAny /\ lvl = 0
    \/ Iter /\ lvl = 0
    \/ SeriesNext
    \/ EnterAny
    \/ Tick
    \/ BodyRaiseAny
    \/ BodySuccessAny
    \/ ScopeExit

SpecAttempts == InitAttempts /\ [][NextAttempts]_vars

\* The clock goes on: a loop that keeps going round keeps taking time (a
\* body or the step between two passes takes a tick again and again).  And
\* control goes on: the for and with statements go through their calls of
\* __next__, __enter__ and __exit__.
LiveSpecAttempts ==
    /\ SpecAttempts
    /\ SF_vars(Tick)
    /\ WF_vars(SeriesNext)
    /\ WF_vars(EnterAny)
    /\ WF_vars(ScopeExit)

\* Loops over AttemptSeries nested up to three deep.
InitNested ==
    /\ InitAttempts
    /\ waits[1].timer.running
    /\ waits[1].min_poll_duration = 0

NextNested ==
    \/ ForSeriesAny
    \/ SeriesNext
    \/ EnterAny
    \/ Tick
    \/ BodyRaiseAny
    \/ BodySuccessAny
    \/ ScopeExit

SpecNested == InitNested /\ [][NextNested]_vars

\* Calls of every kind on a wait and on the wait spawned from it.
InitCalls ==
    /\ Init
    /\ waits[1].min_poll_duration = 0
    /\ waits[1].ignored_exceptions = {NoSuchElementException}

SpawnBudget == \E i \in 1..2, max_timeout \in Opt(0..MaxBudget) : Spawn(i, max_timeout, << >>, << >>)

NextCalls ==
    \/ CallAny
    \/ ProbeUntil
    \/ ProbeUntilNot
    \/ ProbeUntilAny
    \/ ElapseAny
    \/ SpawnBudget
    \/ AttemptsAny /\ lvl = 0

SpecCalls == InitCalls /\ [][NextCalls]_vars

\* Calls on a wait and loops over series, one after the other.
NextErrors ==
    \/ CallAny
    \/ ProbeUntil
    \/ ProbeUntilNot
    \/ ProbeUntilAny
    \/ ForSeriesAny /\ lvl = 0
    \/ SeriesNext
    \/ EnterAny
    \/ Tick
    \/ BodyRaiseAny
    \/ BodySuccessAny
    \/ ScopeExit

SpecErrors == InitNested /\ [][NextErrors]_vars

\* A wait made with eventually_expires=False and the largest budget, and a
\* wait spawned from it: calls on them, or loops over their series.
InitForever ==
    /\ InitAttempts
    /\ ~waits[1].timer.running
    /\ waits[1].min_poll_duration = 0

NextForever ==
    \/ SpawnBudget /\ pc = "idle" /\ run.pc = "idle"
    \/ CallAny /\ pc = "idle"
    \/ ProbeUntil
    \/ ProbeUntilNot
    \/ ProbeUntilAny
    \/ ForAttemptsAny /\ lvl = 0 /\ run.pc = "idle"
    \/ SeriesNext
    \/ EnterAny
    \/ Tick
    \/ BodyRaiseAny
    \/ BodySuccessAny
    \/ ScopeExit

SpecForever == InitForever /\ [][NextForever]_vars

\* The clock goes on and so does control, as in LiveSpecAttempts.
LiveSpecForever ==
    /\ SpecForever
    /\ SF_vars(Tick)
    /\ WF_vars(SeriesNext)
    /\ WF_vars(EnterAny)
    /\ WF_vars(ScopeExit)

\* ----------------------------------------------------------- timer actions
\* waits[i]._timer.start()
TimerStart(i) ==
    /\ pc = "idle" /\ run.pc # "running"
    /\ i \in 1..Len(waits)
    /\ waits' = [waits EXCEPT ![i].timer = Timer_start(@, now)]
    /\ UNCHANGED <<now, run, attemptVars>>

\* waits[i]._timer.stop()
TimerStop(i) ==
    /\ pc = "idle" /\ run.pc # "running"
    /\ i \in 1..Len(waits)
    /\ waits' = [waits EXCEPT ![i].timer = Timer_stop(@, now)]
    /\ UNCHANGED <<now, run, attemptVars>>

TimerStartAny == \E i \in 1..2 : TimerStart(i)
TimerStopAny == \E i \in 1..2 : TimerStop(i)

\* The _Timer of a wait with the largest budget, and that of a wait spawned
\* from it, are started and stopped as time goes by; attempts() makes a
\* series from either.
NextTimer ==
    \/ TimerStartAny
    \/ TimerStopAny
    \/ ElapseAny /\ now' <= MaxClock
    \/ SpawnBudget
    \/ AttemptsAny /\ lvl = 0

InitTimer ==
    /\ InitAttempts
    /\ waits[1].min_poll_duration = 0

SpecTimer == InitTimer /\ [][NextTimer]_vars

\* ------------------------------------------------------ polling: fairness
\* A probe call takes time on the monotonic clock: a probe call that takes at
\* least one tick is made sooner or later.
ProbeSlow == \E out \in Outcome, d \in 1..MaxLat : Probe(out, d)

LiveSpec == Spec /\ WF_vars(ProbeSlow)

\* ------------------------------------------------------- polling: claims
\* What the predicate of a run accepts, stated on the values themselves
Accepts(kind, v) ==
    \/ kind \in {"until", "until_any"} /\ v = "Elem"
    \/ kind = "until_not" /\ v \in {"None", "Zero"}

Ended == {"returned", "timeout", "raised"}

\* C3: a pass of the loop of until / until_not whose probe returns a value the
\* predicate accepts returns exactly that value, at once and whatever the
\* Deadline reads; a pass whose probe returns any other value returns nothing;
\* so the value returned is that of the first accepting pass.  The Deadline
\* is consulted only after a pass: a run never times out before a probe call.
PollLoopResult ==
    [][/\ \A out \in Outcome, d \in 0..MaxLat :
            (run.kind \in {"until", "until_not"} /\ Probe(out, d) /\ ~out.raises)
            => IF Accepts(run.kind, out.v)
               THEN run'.pc = "returned" /\ run'.result = out.v /\ now' = now + d
               ELSE run'.pc \in {"running", "timeout"}
       /\ (run'.pc = "timeout" => ~run'.first)
      ]_vars

\* C3 witness: budget 0, Deadline running, and yet the run returned the element
PollLoopResultWitness ==
    /\ run.pc = "returned" /\ run.kind = "until" /\ run.result = "Elem"
    /\ waits[run.w].timer.running /\ waits[run.w].timer.last_timeout = 0

\* C4: on a wait whose Deadline is running, a pass that neither returns nor
\* lets an error through ends the run with Timeout exactly when the Deadline
\* then reads 0, and every run in progress ends: returned, Timeout or raised.
PollLoopTerminates ==
    /\ [][(run.pc = "running" /\ run'.pc \in {"running", "timeout"}
            /\ run'.idx = 1 /\ waits[run.w].timer.running)
          => (run'.pc = "timeout" <=> Wait_timeout(waits[run.w], now') = 0)]_vars
    /\ ((run.pc = "running" /\ waits[run.w].timer.running) ~> (run.pc \in Ended))

\* C4 witness: a run on a running Deadline with budget left at first ended
\* with Timeout after transient failures only
PollLoopTerminatesWitness ==
    /\ run.pc = "timeout" /\ run.screen = NoSuchElementException
    /\ waits[run.w].timer.running /\ waits[run.w].timer.last_timeout = MaxBudget

\* C5: in a round of until_any the probes are called in order; one that
\* returns a falsy value or raises an ignored kind is passed over and the next
\* one is called at once, in the same round; the first truthy value is what
\* until_any returns, no further probe being called; after the last probe
\* with no truthy value the round is empty and the loop goes to its next
\* round (or times out); a kind that is not ignored is let through.
RacingOrder ==
    [][\A out \in Outcome, d \in 0..MaxLat :
        (run.kind = "until_any" /\ Probe(out, d))
        => IF ~out.raises /\ out.v = "Elem"
               THEN run'.pc = "returned" /\ run'.result = out.v /\ run'.idx = run.idx
           ELSE IF out.raises /\ out.v \notin waits[run.w].ignored_exceptions
               THEN run'.pc = "raised" /\ run'.result = out.v
           ELSE IF run.idx < run.n
               THEN run'.pc = "running" /\ run'.idx = run.idx + 1 /\ now' = now + d
           ELSE run'.pc \in {"running", "timeout"} /\ run'.result = "None"
                /\ (run'.pc = "running" => run'.idx = 1)
      ]_vars

\* C5 witness: until_any returned the value of its second probe, the first
\* one having been passed over
RacingOrderWitness ==
    run.pc = "returned" /\ run.kind = "until_any" /\ run.idx = 2

\* C6: no call changes the timer of a wait, and the remaining time of a wait
\* never grows from one step to the next; a run whose first pass starts with
\* the Deadline at 0 does not go into a second pass.
OneBudget ==
    [][/\ \A i \in 1..Len(waits) :
            /\ waits'[i].timer = waits[i].timer
            /\ Wait_timeout(waits'[i], now') <= Wait_timeout(waits[i], now)
       /\ (run.pc = "running" /\ run.first /\ run'.pc = "running" /\ ~run'.first)
          => Wait_timeout(waits[run.w], now) > 0 \/ ~waits[run.w].timer.running
      ]_vars

\* C6 witness: after spawn and attempts calls, a run on the first wait, whose
\* budget was not 0 to begin with, timed out
OneBudgetWitness ==
    /\ run.pc = "timeout" /\ run.w = 1
    /\ waits[1].timer.running /\ waits[1].timer.last_timeout > 0
    /\ Len(waits) = 2 /\ made[1].by = "attempts"

\* C9: the wait spawn returns has, at that moment, min(X, the parent's
\* remaining time) left for max_timeout = X and the parent's remaining time
\* without max_timeout; never more than the parent.
SpawnCapping ==
    [][\A i \in 1..2, X \in Opt(0..MaxBudget) :
        Spawn(i, X, << >>, << >>)
        => LET c == waits'[Len(waits')]
               p == Wait_timeout(waits[i], now)
           IN  /\ Wait_timeout(c, now') = IF X = << >> THEN p ELSE Min(X[1], p)
               /\ Wait_timeout(c, now') <= p
      ]_vars

\* C9 witness: a wait spawned from a partly consumed parent, capped at what
\* the parent had left
SpawnCappingWitness ==
    /\ Len(waits) = 2
    /\ waits[1].timer.running /\ waits[1].timer.last_timeout = MaxBudget
    /\ waits[2].timer.last_start = 1 /\ waits[2].timer.last_timeout = MaxBudget - 1

\* ------------------------------------------------------- attempts: claims
\* C1: in nested loops, a Success raised with the capability of the Attempt
\* at depth k is absorbed by that Attempt alone: its result and its series'
\* result become the value and its series is stopped; an Attempt further in
\* lets the Success through as it is, keeps result None, and its series keeps
\* result None and is not stopped; Attempts and series further out are left
\* as they are, open and not stopped.
SuccessAttribution ==
    [][(exc.kind = "Success" /\ ScopeExit)
        => /\ \A l \in 1..(lvl - 1) :
                /\ series'[l] = series[l] /\ att'[l] = att[l]
                /\ ~series'[l].stop_iteration
           /\ IF exc.owner = lvl
              THEN /\ att'[lvl].result = exc.result
                   /\ series'[lvl].result = exc.result
                   /\ series'[lvl].stop_iteration
                   /\ exc' = NoExc /\ lvl' = lvl /\ pc' = "next"
                   /\ lvl + 1 \in Levels
                      => att'[lvl + 1] = att[lvl + 1] /\ series'[lvl + 1] = series[lvl + 1]
              ELSE /\ exc' = exc /\ lvl' = lvl - 1
                   /\ att'[lvl] = att[lvl] /\ att[lvl].result = "None"
                   /\ series'[lvl] = series[lvl] /\ series[lvl].result = "None"
                   /\ ~series[lvl].stop_iteration
      ]_vars

\* C1 witness: of three nested loops, the Attempt at depth 2 has absorbed the
\* Success raised at depth 3, which the Attempt at depth 3 let through; the
\* loop at depth 1 goes on
SuccessAttributionWitness ==
    /\ lvl = 2 /\ pc = "next"
    /\ series[2].stop_iteration /\ series[2].result = "Elem" /\ att[2].result = "Elem"
    /\ made[3].by # "none" /\ att[3].result = "None"
    /\ ~series[3].stop_iteration /\ series[3].result = "None"
    /\ ~series[1].stop_iteration /\ series[1].result = "None" /\ att[1].result = "None"

\* C2: a Success that comes to the __exit__ of its own Attempt sets the
\* result of the Attempt and of the series and is swallowed; the __next__ that
\* follows raises StopIteration: no Attempt is yielded, no Timeout raised, and
\* no time slept, whatever the series has left.
SuccessStops ==
    [][/\ (exc.kind = "Success" /\ exc.owner = lvl /\ ScopeExit)
          => /\ att'[lvl].result = exc.result /\ series'[lvl].result = exc.result
             /\ series'[lvl].stop_iteration
             /\ exc' = NoExc /\ pc' = "next"
       /\ (lvl >= 1 /\ series[lvl].stop_iteration /\ SeriesNext)
          => /\ lvl' = lvl - 1 /\ pc' \in {"body", "done"}
             /\ exc' = NoExc /\ now' = now
             /\ att'[lvl] = att[lvl] /\ series'[lvl] = series[lvl]
      ]_vars

\* C2 witness: a loop ended by StopIteration with the result set although
\* the series had no time left
SuccessStopsWitness ==
    /\ pc = "done" /\ exc = NoExc
    /\ series[1].stop_iteration /\ series[1].result = "Elem" /\ att[1].result = "Elem"
    /\ Series_timeout(series[1], now) = 0

NotFoundAlwaysSuppressed ==
    [][(exc.kind = NoSuchElementException /\ Series_timeout(series[lvl], now) > 0
            /\ ScopeExit)
        => (exc' = NoExc /\ pc' = "next" /\ lvl' = lvl)
      ]_vars

\* C8, what happens instead: the NoSuchElementException raised in an Attempt
\* without suppress() has left the loop, the series having time left
NotFoundEscapes ==
    /\ pc = "escaped" /\ exc.kind = NoSuchElementException
    /\ att[1].ignored_exceptions = {}
    /\ Series_timeout(series[1], now) > 0

\* C10 as stated: the series attempts() returned has, at every moment, as
\* much time left as the wait it came from.
SeriesSharesDeadline ==
    \A l \in Levels :
        made[l].by = "attempts"
        => Series_timeout(series[l], now) = Wait_timeout(waits[made[l].w], now)

\* C10: the series attempts() returned has a running countdown of its own,
\* started when it was made with what the wait had left then.  It reads the
\* same as the wait at every moment if the wait's Deadline is running; if that
\* is not running, the wait's remaining time stays as it is while the series
\* counts down.
SeriesOwnDeadline ==
    \A l \in Levels :
        made[l].by = "attempts"
        => LET s == series[l]
               w == waits[made[l].w]
               born == s.timer_total.last_start
           IN  /\ s.timer_total.running
               /\ s.timer_total.last_timeout = Wait_timeout(w, born)
               /\ Series_timeout(s, now) = Max(Wait_timeout(w, born) - (now - born), 0)
               /\ w.timer.running => Series_timeout(s, now) = Wait_timeout(w, now)
               /\ ~w.timer.running => Wait_timeout(w, now) = w.timer.last_timeout

\* C10 witness: after an absorbed Success the series of a wait whose Deadline
\* is not running has less left than the wait, which has been debited nothing
SeriesOwnDeadlineWitness ==
    /\ pc = "done" /\ made[1].by = "attempts"
    /\ series[1].stop_iteration /\ ~waits[1].timer.running
    /\ Series_timeout(series[1], now) < Wait_timeout(waits[1], now)
    /\ Wait_timeout(waits[1], now) = MaxBudget

Timers ==
    {waits[i].timer : i \in 1..Len(waits)}
    \cup {series[l].timer_total : l \in {k \in Levels : made[k].by # "none"}}
    \cup {series[l]._timer_poll : l \in {k \in Levels : made[k].by # "none"}}
    \cup {series[l].timer_poll : l \in {k \in Levels : made[k].by # "none"}}

\* C12: timeout() of every _Timer, of a wait made directly or by spawn and of
\* a series made by attempts(), reads 0 or more at every moment, running or
\* not, whatever start(), stop() and the clock did before.
NonNegative == \A tm \in Timers : Timer_timeout(tm, now) >= 0

\* C12 witness: a spawned wait and a series made by attempts() whose running
\* timers are past the end of their budget, and a wait stopped and restarted
NonNegativeWitness ==
    /\ Len(waits) = 2 /\ waits[2].timer.running
    /\ now - waits[2].timer.last_start > waits[2].timer.last_timeout
    /\ made[1].by = "attempts"
    /\ now - series[1].timer_total.last_start > series[1].timer_total.last_timeout
    /\ waits[1].timer.running /\ waits[1].timer.last_start > 0

\* ------------------------------------------------- polling: blocking time
\* C13 as stated: a call of until / until_not / until_any returns or raises
\* no later than the remaining time of the wait at the call plus the time
\* the one invocation of method under way took, whatever min_poll_duration.
BlockingBound ==
    [][\A out \in Outcome, d \in 0..MaxLat :
        (Probe(out, d) /\ run'.pc \in Ended)
        => LET t0 == IF run.idx = 1 THEN now ELSE run.poll_start
           IN  now' - run.called
                   <= Wait_timeout(waits[run.w], run.called) + (now + d - t0)
      ]_vars

\* ------------------------------------------------- attempts: more claims
\* C14: a series made with budget 0, given to AttemptSeries or read from a
\* wait with no time left, never yields an Attempt: control in its loop is
\* only ever at __next__, and that raises Timeout at once, with no Attempt
\* made and no body run.
EmptyBudget ==
    [][(lvl >= 1 /\ series[lvl].timer_total.last_timeout = 0)
        => /\ pc = "next"
           /\ SeriesNext
              => /\ exc'.kind = TimeoutException
                 /\ pc' = Leave(lvl) /\ lvl' = lvl - 1
                 /\ att'[lvl] = att[lvl] /\ now' = now
      ]_vars

\* C14 witness: the loop over the series of a wait that had used its budget
\* up was left with Timeout, no Attempt having been entered
EmptyBudgetWitness ==
    /\ pc = "escaped" /\ exc.kind = TimeoutException
    /\ made[1].by = "attempts" /\ waits[1].timer.last_timeout > 0
    /\ series[1].timer_total.last_timeout = 0
    /\ series[1].timer_total.last_start = now

\* C15 as stated: an Attempt is yielded no sooner than min_poll_duration
\* after the Attempt before it of the same series was (timer_poll was started
\* then).
SeriesRoundFloor ==
    [][(pc = "next" /\ pc' = "yielded" /\ series[lvl].timer_poll # NoTimer)
        => now' - series[lvl].timer_poll.last_start >= series[lvl].min_poll_duration
      ]_vars

\* ---------------------------------------------------- polling: more claims
\* C16: a pass of _until_predicate that ends without returning and without
\* an error let through is over, with the next probe call or the Timeout,
\* no sooner than min_poll_duration after it began; the sleep in it is
\* max(0, min_poll_duration - the time method took), so never more than
\* min_poll_duration; a pass that returns does so when method is through,
\* without any sleep.
PollRoundFloor ==
    [][\A out \in Outcome, d \in 0..MaxLat :
        Probe(out, d)
        => LET t0 == IF run.idx = 1 THEN now ELSE run.poll_start
               mpd == waits[run.w].min_poll_duration
               spent == now + d - t0
               sleep == now' - (now + d)
           IN  /\ (run'.pc = "timeout" \/ (run'.pc = "running" /\ run'.idx = 1))
                  => /\ now' - t0 >= mpd
                     /\ sleep = Max(0, mpd - spent)
                     /\ sleep <= mpd
               /\ run'.pc \in {"returned", "raised"} => sleep = 0
      ]_vars

\* C16 witness: with min_poll_duration at its largest, a pass begun at the
\* call has ended without a result and the next one is due
PollRoundFloorWitness ==
    /\ run.pc = "running" /\ ~run.first /\ run.idx = 1
    /\ waits[run.w].min_poll_duration = MaxPoll
    /\ now = run.called + MaxPoll

\* C17: an exception of a kind that is not ignored, raised by a probe, leaves
\* until / until_not / until_any as it is when the probe raises it, with no
\* sleep, no further probe call and no Timeout in its place; one of a kind
\* the Attempt does not suppress, raised in its body, leaves __exit__ and the
\* loop as it is, the series not stopped and no result changed; time left or
\* not.
FailFast ==
    [][/\ \A out \in Outcome, d \in 0..MaxLat :
            (Probe(out, d) /\ out.raises /\ out.v \notin waits[run.w].ignored_exceptions)
            => run'.pc = "raised" /\ run'.result = out.v /\ now' = now + d
       /\ (run.pc = "raised" /\ run' # run) => (run'.pc = "running" /\ run'.first)
       /\ (pc = "exit" /\ exc.kind # "Success"
                /\ exc.kind \notin att[lvl].ignored_exceptions /\ ScopeExit)
          => /\ exc' = exc /\ lvl' = lvl - 1 /\ pc' = Leave(lvl)
             /\ series'[lvl] = series[lvl] /\ att'[lvl] = att[lvl]
             /\ ~series'[lvl].stop_iteration
      ]_vars

\* C17 witness: a ValueError has left a call on a wait with no time left, and
\* another has left a loop whose series has time left
FailFastWitness ==
    /\ run.pc = "raised" /\ run.result = "ValueError"
    /\ pc = "escaped" /\ exc.kind = "ValueError"
    /\ Series_timeout(series[1], now) > 0
    /\ Wait_timeout(waits[1], now) = 0

\* C18: when an exception of a kind the Attempt suppresses comes to its
\* __exit__, then, if the series has no time left, TimeoutException leaves
\* the loop in its place; if it has, the exception is swallowed and the for
\* statement goes to __next__; either way the series is not stopped and no
\* result changes.
SuppressedAtExit ==
    [][(pc = "exit" /\ exc.kind \in att[lvl].ignored_exceptions /\ ScopeExit)
        => /\ series'[lvl] = series[lvl] /\ att'[lvl] = att[lvl]
           /\ ~series'[lvl].stop_iteration
           /\ IF Series_timeout(series[lvl], now) <= 0
              THEN /\ exc'.kind = TimeoutException
                   /\ lvl' = lvl - 1 /\ pc' = Leave(lvl)
              ELSE exc' = NoExc /\ pc' = "next" /\ lvl' = lvl
      ]_vars

\* C18 witness: the body used the budget up and raised the suppressed kind;
\* Timeout left the loop from __exit__ (__next__ was not called again: it
\* would have set timer_poll)
SuppressedAtExitWitness ==
    /\ pc = "escaped" /\ exc.kind = TimeoutException
    /\ att[1].ignored_exceptions = {NoSuchElementException}
    /\ series[1].timer_total.last_timeout = MaxBudget
    /\ series[1].timer_poll.running /\ series[1].timer_poll.last_start < now

\* C19: in until_not a pass whose probe raises an ignored kind returns the
\* constant True when the probe raises, with no sleep and no look at the
\* Deadline, while one whose probe returns a falsy value returns that value;
\* in until a pass whose probe raises an ignored kind does not return: the
\* sleep and the Deadline check follow, and the exception's payload is kept
\* for a Timeout.
NegatedShim ==
    [][\A out \in Outcome, d \in 0..MaxLat :
        Probe(out, d)
        => LET w == waits[run.w]
               transient == out.raises /\ out.v \in w.ignored_exceptions
           IN  /\ (run.kind = "until_not" /\ transient)
                  => run'.pc = "returned" /\ run'.result = "True" /\ now' = now + d
               /\ (run.kind = "until_not" /\ ~out.raises /\ out.v \in {"None", "Zero"})
                  => run'.pc = "returned" /\ run'.result = out.v /\ now' = now + d
               /\ (run.kind = "until" /\ transient)
                  => /\ run'.pc \in {"running", "timeout"}
                     /\ run'.screen = out.v
                     /\ now' = now + d + Max(0, w.min_poll_duration - d)
                     /\ run'.pc = "timeout" <=> Wait_timeout(w, now') = 0
      ]_vars

\* C19 witness: until_not has returned True on a wait that has time left
NegatedShimWitness ==
    /\ run.pc = "returned" /\ run.kind = "until_not" /\ run.result = "True"
    /\ Wait_timeout(waits[run.w], now) > 0

\* ------------------------------------------------- waits that never expire
\* A pass on probe outcome out that neither returns nor lets an error through
FailingPass(w, kind, out) ==
    \/ out.raises /\ out.v \in w.ignored_exceptions /\ kind # "until_not"
    \/ ~out.raises /\ ~Predicate(kind, out.v)

\* C20: the timer of a wait made with eventually_expires=False, or spawned
\* from such a wait, is never running, so its remaining time is the budget
\* at every moment; a call on it, the budget being more than 0, goes on after
\* every pass that fails and at no time ends with Timeout; the series
\* attempts() makes from it has a running timer, and the loop over it is
\* left sooner or later.
NeverExpires ==
    /\ [][/\ \A i \in 1..Len(waits) :
               ~waits[i].timer.running
               => /\ ~waits'[i].timer.running
                  /\ Wait_timeout(waits'[i], now') = waits[i].timer.last_timeout
          /\ Len(waits') > Len(waits) => ~waits'[Len(waits')].timer.running
          /\ \A out \in Outcome, d \in 0..MaxLat :
               (/\ Probe(out, d)
                /\ waits[run.w].timer.last_timeout > 0
                /\ FailingPass(waits[run.w], run.kind, out))
               => run'.pc = "running"
          /\ run'.pc = "timeout" => waits[run'.w].timer.last_timeout = 0
          /\ \A l \in Levels :
               made'[l].by = "attempts" => series'[l].timer_total.running
         ]_vars
    /\ (lvl = 1) ~> (lvl = 0)

\* C20 witness: the loop over the series of such a wait was left with Timeout
\* while the wait, and the wait spawned from it, read the whole budget
NeverExpiresWitness ==
    /\ pc = "escaped" /\ exc.kind = TimeoutException
    /\ made[1].by = "attempts" /\ made[1].w = 2
    /\ series[1].timer_total.last_timeout = MaxBudget
    /\ Wait_timeout(waits[1], now) = MaxBudget
    /\ Wait_timeout(waits[2], now) = MaxBudget

====
